---- MODULE Spec2Model ----
(***************************************************************************)
(* Model of reverb/cc/platform/default/status_macros.h: the two status     *)
(* propagation macros REVERB_RETURN_IF_ERROR and                           *)
(* REVERB_ASSIGN_OR_RETURN_IMPL, executed statement by statement inside an *)
(* enclosing function that is a sequence of propagation sites followed by  *)
(* a final return (the MultiStepFunction shape of the header's comments).  *)
(*                                                                         *)
(* A message is a sequence of text fragments, so that appending context    *)
(* to a message is a real concatenation.                                   *)
(***************************************************************************)
EXTENDS Integers, Sequences, FiniteSets

\* ---------------------------------------------------------------- bounds
\* Largest number of propagation sites in the enclosing function.
MaxSites == 2

\* ---------------------------------------------------------------- inputs
\* Non-OK status codes a fallible expression may produce.
ErrorCodes == {"NOT_FOUND", "INTERNAL"}
\* Messages a fallible expression may produce.
Msgs == {<<>>, <<"x">>}
\* Payloads a successful absl::StatusOr<int> may carry.
Payloads == {7, 42}
\* Value held by every destination before the function runs.
Sentinel == -1
\* Marker of "no payload" (a plain status, or a failed StatusOr).
NoValue == -2
\* Marker of a payload that has been moved out of its StatusOr.
MovedFrom == -3
\* Text written after a macro invocation (`<< "A" << "B"`), in source order.
Chains == {<<>>, <<"while loading x">>, <<"A", "B">>}
\* Third macro argument `_ << text`; the empty string means "not passed".
NoErrorExpression == ""
ErrorExpressions == {NoErrorExpression, "while processing query"}

\* The results an absl::Status expression can evaluate to.
StatusResults ==
  {[code |-> "OK", msg |-> <<>>, val |-> NoValue]}
  \cup [code : ErrorCodes, msg : Msgs, val : {NoValue}]

\* The results an absl::StatusOr<int> expression can evaluate to.
StatusOrResults ==
  [code : {"OK"}, msg : {<<>>}, val : Payloads]
  \cup [code : ErrorCodes, msg : Msgs, val : {NoValue}]

\* A propagation site as written by the caller.
Sites ==
  [kind : {"RETURN_IF_ERROR"}, chain : Chains, error_expression : {NoErrorExpression}]
  \cup [kind : {"ASSIGN_OR_RETURN"}, chain : {<<>>}, error_expression : ErrorExpressions]

\* Final statement of the enclosing function: `return absl::OkStatus();`
\* or `return value + 1;` on the value bound by the last extraction.
Tails == {"OkStatus", "value + 1"}

\* ----------------------------------------------------------------- state
VARIABLES
  prog,      \* the sites of the enclosing function, in source order
  tail,      \* its final statement
  site,      \* index of the site being executed (Len(prog)+1: the tail)
  pc,        \* position inside the site: "eval", "test", "assign", "tail", "done"
  _status,   \* the macro's local `_status` (REVERB_RETURN_IF_ERROR)
  statusor,  \* the macro's local `statusor` (REVERB_ASSIGN_OR_RETURN_IMPL)
  dest,      \* dest[i]: the location named by `lhs` of site i
  ret,       \* the value returned by the enclosing function
  events     \* every evaluation and call made so far, in execution order

vars == <<prog, tail, site, pc, _status, statusor, dest, ret, events>>

\* Value of a local or of the return slot that has not been written.
Unset == [code |-> "UNSET", msg |-> <<>>, val |-> NoValue]

\* --------------------------------------------------------------- helpers
\* absl::Status::ok(), absl::StatusOr<T>::ok()
ok(s) == s.code = "OK"

\* absl::StatusOr<T>::status()
status(so) == [code |-> so.code, msg |-> so.msg, val |-> NoValue]

\* absl::StatusOr<T>::ValueOrDie()
ValueOrDie(so) == so.val

\* Variant: the hint macro expands to the expected value, not to x.
REVERB_PREDICT_FALSE_Expected(x) == FALSE

\* REVERB_PREDICT_FALSE(x): a branch hint, the value of x.
REVERB_PREDICT_FALSE(x) == x

\* absl::OkStatus()
OkStatus == [code |-> "OK", msg |-> <<>>, val |-> NoValue]

\* Record of one evaluation or call at site i on the object res.
Event(op, i, res) == [op |-> op, site |-> i, res |-> res]

\* Position after site i has fallen through.
NextPc(i) == IF i + 1 <= Len(prog) THEN "eval" ELSE "tail"

AtSite(kind, at) ==
  /\ site <= Len(prog)
  /\ prog[site].kind = kind
  /\ pc = at

\* ------------------------------------------------------------------ Init
Init ==
  /\ \E n \in 0..MaxSites : prog \in [1..n -> Sites]
  /\ tail \in Tails
  /\ tail = "value + 1" =>
       (Len(prog) > 0 /\ prog[Len(prog)].kind = "ASSIGN_OR_RETURN")
  /\ site = 1
  /\ pc = IF Len(prog) > 0 THEN "eval" ELSE "tail"
  /\ _status = Unset
  /\ statusor = Unset
  /\ dest = [i \in 1..Len(prog) |-> Sentinel]
  /\ ret = Unset
  /\ events = <<>>

\* ------------------------------------------- REVERB_RETURN_IF_ERROR(...)
\* ::absl::Status _status = (__VA_ARGS__);
ReturnIfError_Eval ==
  /\ AtSite("RETURN_IF_ERROR", "eval")
  /\ \E r \in StatusResults :
       /\ _status' = r
       /\ events' = Append(events, Event("eval", site, r))
  /\ pc' = "test"
  /\ UNCHANGED <<prog, tail, site, statusor, dest, ret>>

\* Variant: the failure branch lacks its `return` and the block is left.
ReturnIfError_Return_Swallow ==
  /\ AtSite("RETURN_IF_ERROR", "test")
  /\ REVERB_PREDICT_FALSE(~ok(_status))
  /\ site' = site + 1
  /\ pc' = NextPc(site)
  /\ events' = Append(events, Event("ok", site, _status))
  /\ UNCHANGED <<prog, tail, _status, statusor, dest, ret>>

\* if (REVERB_PREDICT_FALSE(!_status.ok())) return _status;
ReturnIfError_Return ==
  /\ AtSite("RETURN_IF_ERROR", "test")
  /\ REVERB_PREDICT_FALSE(~ok(_status))
  /\ ret' = _status
  /\ pc' = "done"
  /\ events' = Append(events, Event("ok", site, _status))
  /\ UNCHANGED <<prog, tail, site, _status, statusor, dest>>

\* Variant: `return _status;` is not guarded, so success returns too.
ReturnIfError_FallThrough_Returns ==
  /\ AtSite("RETURN_IF_ERROR", "test")
  /\ ~REVERB_PREDICT_FALSE(~ok(_status))
  /\ ret' = _status
  /\ pc' = "done"
  /\ events' = Append(events, Event("ok", site, _status))
  /\ UNCHANGED <<prog, tail, site, _status, statusor, dest>>

\* the test fails: leave the do { } while (0) block
ReturnIfError_FallThrough ==
  /\ AtSite("RETURN_IF_ERROR", "test")
  /\ ~REVERB_PREDICT_FALSE(~ok(_status))
  /\ site' = site + 1
  /\ pc' = NextPc(site)
  /\ events' = Append(events, Event("ok", site, _status))
  /\ UNCHANGED <<prog, tail, _status, statusor, dest, ret>>

\* ------------------------- REVERB_ASSIGN_OR_RETURN_IMPL(statusor, lhs, rexpr)
\* auto statusor = (rexpr);
AssignOrReturn_Eval ==
  /\ AtSite("ASSIGN_OR_RETURN", "eval")
  /\ \E r \in StatusOrResults :
       /\ statusor' = r
       /\ events' = Append(events, Event("eval", site, r))
  /\ pc' = "test"
  /\ UNCHANGED <<prog, tail, site, _status, dest, ret>>

\* Variant: lhs is declared and value-initialised before the test.
AssignOrReturn_Return_DefaultAssign ==
  /\ AtSite("ASSIGN_OR_RETURN", "test")
  /\ REVERB_PREDICT_FALSE(~ok(statusor))
  /\ dest' = [dest EXCEPT ![site] = 0]
  /\ ret' = status(statusor)
  /\ pc' = "done"
  /\ events' = events \o <<Event("lhs", site, statusor),
                           Event("ok", site, statusor)>>
  /\ UNCHANGED <<prog, tail, site, _status, statusor>>

\* Variant: the failure branch is `return (rexpr).status();`, which
\* evaluates the expression a second time.
AssignOrReturn_Return_Reeval ==
  /\ AtSite("ASSIGN_OR_RETURN", "test")
  /\ REVERB_PREDICT_FALSE(~ok(statusor))
  /\ \E r \in StatusOrResults :
       /\ ret' = status(r)
       /\ events' = events \o <<Event("ok", site, statusor),
                                Event("eval", site, r)>>
  /\ pc' = "done"
  /\ UNCHANGED <<prog, tail, site, _status, statusor, dest>>

\* if (REVERB_PREDICT_FALSE(!statusor.ok())) { return statusor.status(); }
AssignOrReturn_Return ==
  /\ AtSite("ASSIGN_OR_RETURN", "test")
  /\ REVERB_PREDICT_FALSE(~ok(statusor))
  /\ ret' = status(statusor)
  /\ pc' = "done"
  /\ events' = Append(events, Event("ok", site, statusor))
  /\ UNCHANGED <<prog, tail, site, _status, statusor, dest>>

\* Variant: the assignment is reached whatever the test said.
AssignOrReturn_Pass_Unchecked ==
  /\ AtSite("ASSIGN_OR_RETURN", "test")
  /\ pc' = "assign"
  /\ events' = Append(events, Event("ok", site, statusor))
  /\ UNCHANGED <<prog, tail, site, _status, statusor, dest, ret>>

\* the test fails: go on to the assignment
AssignOrReturn_Pass ==
  /\ AtSite("ASSIGN_OR_RETURN", "test")
  /\ ~REVERB_PREDICT_FALSE(~ok(statusor))
  /\ pc' = "assign"
  /\ events' = Append(events, Event("ok", site, statusor))
  /\ UNCHANGED <<prog, tail, site, _status, statusor, dest, ret>>

\* Variant: the payload is moved into a temporary and lhs is not assigned.
AssignOrReturn_Assign_Temporary ==
  /\ AtSite("ASSIGN_OR_RETURN", "assign")
  /\ statusor' = [statusor EXCEPT !.val = MovedFrom]
  /\ events' = events \o <<Event("ValueOrDie", site, statusor),
                           Event("lhs", site, statusor)>>
  /\ site' = site + 1
  /\ pc' = NextPc(site)
  /\ UNCHANGED <<prog, tail, _status, dest, ret>>

\* lhs = std::move(statusor.ValueOrDie())
AssignOrReturn_Assign ==
  /\ AtSite("ASSIGN_OR_RETURN", "assign")
  /\ dest' = [dest EXCEPT ![site] = ValueOrDie(statusor)]
  /\ statusor' = [statusor EXCEPT !.val = MovedFrom]
  /\ events' = events \o <<Event("ValueOrDie", site, statusor),
                           Event("lhs", site, statusor)>>
  /\ site' = site + 1
  /\ pc' = NextPc(site)
  /\ UNCHANGED <<prog, tail, _status, ret>>

\* ------------------------------------------- end of the enclosing function
\* return absl::OkStatus();   or   return value + 1;
ReturnTail ==
  /\ pc = "tail"
  /\ ret' = IF tail = "OkStatus"
              THEN OkStatus
              ELSE [code |-> "OK", msg |-> <<>>, val |-> dest[Len(prog)] + 1]
  /\ pc' = "done"
  /\ UNCHANGED <<prog, tail, site, _status, statusor, dest, events>>

Next ==
  \/ ReturnIfError_Eval
  \/ ReturnIfError_Return
  \/ ReturnIfError_FallThrough
  \/ AssignOrReturn_Eval
  \/ AssignOrReturn_Return
  \/ AssignOrReturn_Pass
  \/ AssignOrReturn_Assign
  \/ ReturnTail

Spec == Init /\ [][Next]_vars

\* ------------------------------------------------- observations on a run
\* Positions in `events` of the calls named op made at site i.
EventsAt(op, i) ==
  {k \in DOMAIN events : events[k].op = op /\ events[k].site = i}

Count(op, i) == Cardinality(EventsAt(op, i))

\* The fallible expression of site i has been evaluated.
Evaluated(i) == EventsAt("eval", i) # {}

\* What the (first) evaluation of the fallible expression of site i produced.
Result(i) == events[CHOOSE k \in EventsAt("eval", i) :
                      \A j \in EventsAt("eval", i) : k <= j].res

\* The enclosing function has returned from inside site i.
ReturnedAt(i) == pc = "done" /\ site = i

\* Nothing belonging to a statement after site i has run.
NothingAfter(i) ==
  /\ \A k \in DOMAIN events : events[k].site <= i
  /\ \A j \in DOMAIN prog : j > i => dest[j] = Sentinel

\* The message m with the context text t appended to it.
WithContext(m, t) == m \o <<"; ", t>>

\* Number of occurrences of the text t in the message m.
Occurrences(m, t) == Cardinality({k \in DOMAIN m : m[k] = t})

\* ---------------------------------------------------------------- claims

\* C1: when the expression of a REVERB_RETURN_IF_ERROR site produced a
\* failure (any non-OK code, any message), the enclosing function never gets
\* past that site: it is at the site's test or has returned from it, nothing
\* of a later statement has run, and, for a site with no chained
\* augmentation, the returned status has the code and the message of the
\* failure the expression produced.
C1_FailureReturnsUnchanged ==
  \A i \in DOMAIN prog :
    (prog[i].kind = "RETURN_IF_ERROR" /\ Evaluated(i) /\ ~ok(Result(i))) =>
      /\ site = i
      /\ pc \in {"test", "done"}
      /\ NothingAfter(i)
      /\ (ReturnedAt(i) /\ prog[i].chain = <<>>) =>
           /\ ret.code = Result(i).code
           /\ ret.msg = Result(i).msg

C1_Witness ==
  \E i \in DOMAIN prog :
    /\ prog[i].kind = "RETURN_IF_ERROR"
    /\ prog[i].chain = <<>>
    /\ i < Len(prog)
    /\ ReturnedAt(i)
    /\ ret = [code |-> "INTERNAL", msg |-> <<"x">>, val |-> NoValue]

\* C2: when the expression of a REVERB_RETURN_IF_ERROR site produced
\* success, the function does not return at that site and goes on to the
\* next statement, and at that site no StatusBuilder is created, nothing is
\* logged and no chained augmentation is evaluated.
C2_SuccessFallsThrough ==
  \A i \in DOMAIN prog :
    (prog[i].kind = "RETURN_IF_ERROR" /\ Evaluated(i) /\ ok(Result(i))) =>
      /\ ~ReturnedAt(i)
      /\ site >= i
      /\ site = i => pc = "test"
      /\ Count("StatusBuilder", i) = 0
      /\ Count("Log", i) = 0
      /\ Count("chain", i) = 0

C2_Witness ==
  \E i \in DOMAIN prog :
    /\ prog[i].kind = "RETURN_IF_ERROR"
    /\ prog[i].chain # <<>>
    /\ Evaluated(i) /\ ok(Result(i))
    /\ site = i + 1
    /\ pc \in {"eval", "tail"}

\* C3: when the expression of a REVERB_ASSIGN_OR_RETURN site produced a
\* failure, lhs is never evaluated and the destination still holds the
\* sentinel, the function never gets past the site, and what it returns is
\* a failure: the one the expression produced when no error expression was
\* passed.
C3_FailureLeavesDestination ==
  \A i \in DOMAIN prog :
    (prog[i].kind = "ASSIGN_OR_RETURN" /\ Evaluated(i) /\ ~ok(Result(i))) =>
      /\ Count("lhs", i) = 0
      /\ dest[i] = Sentinel
      /\ site = i
      /\ pc \in {"test", "done"}
      /\ NothingAfter(i)
      /\ ReturnedAt(i) => ~ok(ret)
      /\ (ReturnedAt(i) /\ prog[i].error_expression = NoErrorExpression) =>
           ret = status(Result(i))

C3_Witness ==
  \E i \in DOMAIN prog :
    /\ prog[i].kind = "ASSIGN_OR_RETURN"
    /\ i < Len(prog)
    /\ Evaluated(i) /\ ~ok(Result(i))
    /\ ReturnedAt(i)
    /\ dest[i] = Sentinel

\* C4: when the expression of a REVERB_ASSIGN_OR_RETURN site produced
\* success with payload p, the function does not return at that site, and
\* once the site is passed its destination holds exactly p; a function that
\* ends with `return value + 1` returns the last payload plus one, so 43
\* for the payload 42.
C4_SuccessBindsPayload ==
  /\ \A i \in DOMAIN prog :
       (prog[i].kind = "ASSIGN_OR_RETURN" /\ Evaluated(i) /\ ok(Result(i))) =>
         /\ ~ReturnedAt(i)
         /\ site >= i
         /\ site = i => pc \in {"test", "assign"}
         /\ site > i => dest[i] = Result(i).val
  /\ (pc = "done" /\ site = Len(prog) + 1 /\ tail = "value + 1") =>
       /\ ok(ret)
       /\ ret.val = Result(Len(prog)).val + 1
       /\ Result(Len(prog)).val = 42 => ret.val = 43

C4_Witness ==
  /\ pc = "done"
  /\ site = Len(prog) + 1
  /\ tail = "value + 1"
  /\ dest[Len(prog)] = 42
  /\ ret.val = 43

\* C5 (the claim as stated): a REVERB_RETURN_IF_ERROR site with one chained
\* context text t that returned on a failure with code c and message m
\* returned code c and message "m; t".
C5_AugmentedFailureReturned ==
  \A i \in DOMAIN prog :
    (prog[i].kind = "RETURN_IF_ERROR" /\ Len(prog[i].chain) = 1
       /\ ReturnedAt(i)) =>
      /\ ret.code = Result(i).code
      /\ ret.msg = WithContext(Result(i).msg, prog[i].chain[1])

\* C6 (the claim as stated): a site with the chained texts "A" then "B" that
\* returned on a failure returned a message in which each text occurs
\* exactly once, "A" before "B".
C6_ChainInSourceOrder ==
  \A i \in DOMAIN prog :
    (Len(prog[i].chain) = 2 /\ ReturnedAt(i)) =>
      /\ Occurrences(ret.msg, prog[i].chain[1]) = 1
      /\ Occurrences(ret.msg, prog[i].chain[2]) = 1
      /\ \E a, b \in DOMAIN ret.msg :
           /\ a < b
           /\ ret.msg[a] = prog[i].chain[1]
           /\ ret.msg[b] = prog[i].chain[2]

\* C7 (the claim as stated): a REVERB_ASSIGN_OR_RETURN site that was passed
\* an error expression `_ << t` evaluates it exactly once on a failure and
\* returns its result, the failure with t appended, and does not evaluate
\* it on success.
C7_ErrorExpressionReturned ==
  \A i \in DOMAIN prog :
    (prog[i].kind = "ASSIGN_OR_RETURN"
       /\ prog[i].error_expression # NoErrorExpression) =>
      /\ ReturnedAt(i) =>
           /\ Count("error_expression", i) = 1
           /\ ret.code = Result(i).code
           /\ ret.msg = WithContext(Result(i).msg, prog[i].error_expression)
      /\ (Evaluated(i) /\ ok(Result(i))) => Count("error_expression", i) = 0

\* C8: each site evaluates its fallible expression exactly once, on the
\* success and on the failure path: once it is past its first statement
\* there is one evaluation, no site ahead has any, and the tested status,
\* the returned failure and the extracted payload are those of that one
\* evaluation.
C8_EvaluatedExactlyOnce ==
  \A i \in DOMAIN prog :
    /\ Count("eval", i) = IF i < site \/ (i = site /\ pc # "eval") THEN 1 ELSE 0
    /\ \A k \in EventsAt("ok", i) : status(events[k].res) = status(Result(i))
    /\ Count("ok", i) <= 1
    /\ ReturnedAt(i) => ret = status(Result(i))
    /\ (prog[i].kind = "ASSIGN_OR_RETURN" /\ site > i) =>
         dest[i] = Result(i).val

C8_Witness ==
  /\ Len(prog) = 2
  /\ prog[1].kind = "ASSIGN_OR_RETURN"
  /\ prog[2].kind = "RETURN_IF_ERROR"
  /\ Count("eval", 1) = 1
  /\ Count("eval", 2) = 1
  /\ ok(Result(1))
  /\ ReturnedAt(2)

\* C9: ValueOrDie is only ever called on a StatusOr that is OK and whose
\* ok() test was made before at the same site, and a site calls it once when
\* its expression succeeded (as soon as the site is passed) and never when
\* it failed.
C9_ValueOrDieOnlyOnSuccess ==
  /\ \A k \in DOMAIN events :
       events[k].op = "ValueOrDie" =>
         /\ ok(events[k].res)
         /\ events[k].res.val \in Payloads
         /\ \E j \in 1..(k - 1) :
              /\ events[j].op = "ok"
              /\ events[j].site = events[k].site
              /\ ok(events[j].res)
  /\ \A i \in DOMAIN prog :
       Count("ValueOrDie", i) =
         IF prog[i].kind = "ASSIGN_OR_RETURN" /\ site > i THEN 1 ELSE 0

C9_Witness ==
  \E i, j \in DOMAIN prog :
    /\ i < j
    /\ Count("ValueOrDie", i) = 1
    /\ prog[j].kind = "ASSIGN_OR_RETURN"
    /\ ReturnedAt(j)
    /\ Count("ValueOrDie", j) = 0

\* Sites whose fallible expression produced a failure.
Failed == {i \in DOMAIN prog : Evaluated(i) /\ ~ok(Result(i))}

\* C10: once the function has returned, if some expression failed then the
\* function returned the failure of the lowest-indexed failing one, every
\* expression before it was evaluated and succeeded, and no expression
\* after it was evaluated and no destination after it written; and the
\* function returned success exactly when all n expressions were evaluated
\* and succeeded.
C10_FirstFailureWins ==
  pc = "done" =>
    /\ ok(ret) <=> \A i \in DOMAIN prog : Evaluated(i) /\ ok(Result(i))
    /\ Failed # {} =>
         LET f == CHOOSE i \in Failed : \A j \in Failed : i <= j IN
           /\ ret = status(Result(f))
           /\ \A j \in DOMAIN prog : j < f => Evaluated(j) /\ ok(Result(j))
           /\ \A j \in DOMAIN prog : j > f => ~Evaluated(j)
           /\ NothingAfter(f)

C10_Witness ==
  /\ Len(prog) = 2
  /\ pc = "done"
  /\ Evaluated(1) /\ ok(Result(1))
  /\ Evaluated(2) /\ ~ok(Result(2))
  /\ ret = status(Result(2))

====
